---------------------------- MODULE Spec2Model ----------------------------
(***************************************************************************)
(* Model of the autocorrection engine of sdlc_xmalab (samtools.py):        *)
(* autocorrect_trial -> autocorrect_video -> autocorrect_frame, the crop   *)
(* window arithmetic, the thresholding step and the nearest-candidate      *)
(* selection.                                                              *)
(*                                                                         *)
(* Numbers.  Pixel coordinates are Python floats.  They are modelled in    *)
(* fixed point, in HALF PIXELS: the model value h stands for the float     *)
(* h/2, so 0.5 is the model value 1.  Integer pixel indices (crop bounds,  *)
(* frame sizes, search_area after load_project) are plain integers.        *)
(* Distances are compared through their squares (math.sqrt is strictly     *)
(* increasing on the magnitudes used here).                                *)
(***************************************************************************)
EXTENDS Integers, Sequences, FiniteSets, TLC

VARIABLES
    pc,            \* position of the run inside autocorrect_trial and its callees
    project,       \* the dict returned by load_project
    trials,        \* os.listdir(new_data_path)
    trial_i,       \* position of the "for trial in ..." loop (1-based)
    cam_i,         \* position of the "for cam in ['cam1','cam2']" loop (1-based)
    frame_index,   \* autocorrect_video's loop variable
    part_i,        \* position of the "for part in parts_unique" loop (1-based)
    parts_unique,  \* the marker list autocorrect_frame iterates over
    csv,           \* the coordinate table (pandas DataFrame) being corrected
    points_in,     \* the table as read from {trial}-Predicted2DPoints.csv
    video,         \* the opened cv2.VideoCapture: its frames, reported count, position
    frame,         \* the frame returned by the last video.read()
    outputs,       \* number of times each trial's AutoCorrected2DPoints.csv was written
    error,         \* the exception that ended the run, if any
    last,          \* what the last step did (locals of the step, for observation)
    log,           \* per trial: the decode and process events, in order
    xma,           \* the headers of the .csv files in the trial folder (new_data_path/trial)
    fn             \* inputs and results of the pure functions (SpecCrop, SpecThresh)

vars == <<pc, project, trials, trial_i, cam_i, frame_index, part_i, parts_unique,
          csv, points_in, video, frame, outputs, error, last, log, xma, fn>>

engineVars == <<pc, project, trials, trial_i, cam_i, frame_index, part_i,
                parts_unique, csv, points_in, video, frame, outputs, error,
                last, log, xma>>

-----------------------------------------------------------------------------
(* Bounds of the model *)

NumTrials == 2      \* at most this many trial folders
MaxFrames == 2      \* at most this many frames per video
MaxRows == 2        \* at most this many rows per table
FrameSize == 1500   \* width and height of every video frame, in pixels
MaxCoord == 32      \* SpecCrop: predicted coordinates range over -MaxCoord..MaxCoord pixels
MaxRadius == 11     \* SpecCrop: search_area ranges over 10..MaxRadius
MaxAxis == 30       \* SpecCrop: the frame axis has at most this many pixels
MaxPixels == 4      \* SpecThresh: an image has at most this many pixels
NumVariants == 2    \* the video files of a length differ in their first frame, this many ways
MaxMarkerFields == 2 \* SpecNames: a marker name has at most this many underscore-separated fields
MaxCols == 3        \* SpecNames: a CSV header has at most this many columns
MaxTrainFrames == 4 \* SpecLoad: the cam1 video of the trainingdata trial has at most this many frames
MaxIndex == 4       \* SpecPngs: the frame numbers asked for range over 0..MaxIndex
MaxIndices == 2     \* SpecPngs: at most this many frame numbers are asked for
MaxPngFrames == 3   \* SpecPngs: the video has at most this many frames

(* Program constants *)

InitDist == 1000    \* dist = 1000
MinSearchArea == 10 \* "Give search_area a minimum of 10"
MaxVal == 255       \* maxval of cv2.threshold

-----------------------------------------------------------------------------
(* Names *)

Cams == <<"cam1", "cam2">>
Axes == {"X", "Y"}

(* A name (of a column, of a marker) is a string; it is modelled as the
   sequence of the fields its underscores separate, which determines it:
   "m_2_cam1_X" is <<"m", "2", "cam1", "X">>.  Concatenating strings with '_'
   between them is concatenating their field sequences. *)
M1 == <<"m1">>          \* the marker "m1"
M2 == <<"m", "2">>      \* the marker "m_2"
M3 == <<"m3">>          \* the marker "m3"

(* part + '_' + cam + '_' + axis *)
ColName(part, cam, axis) == part \o <<cam, axis>>

(* The columns of a 2D points CSV with the given markers, in file order. *)
ColumnsOf(markers) ==
    [k \in 1..(4 * Len(markers)) |->
        ColName(markers[((k - 1) \div 4) + 1],
                IF ((k - 1) % 4) < 2 THEN "cam1" ELSE "cam2",
                IF k % 2 = 1 THEN "X" ELSE "Y")]

(* The columns of the 2D points CSV of a trial folder, {marker}_{camera}_{axis}. *)
XmaColumns == ColumnsOf(<<M1, M2>>)

(* Mutant of RSplitHead: only the last field is split off. *)
RSplitHeadOnce(name, maxsplit) ==
    IF Len(name) > 1 THEN SubSeq(name, 1, Len(name) - 1) ELSE <<name[1]>>

(* name.rsplit('_', maxsplit)[0]: the name without its last maxsplit fields;
   a name with no more than maxsplit fields is split at every underscore and
   the head is its first field. *)
RSplitHead(name, maxsplit) ==
    IF Len(name) > maxsplit THEN SubSeq(name, 1, Len(name) - maxsplit)
    ELSE <<name[1]>>

RECURSIVE Dedup(_, _)
Dedup(parts, acc) ==
    IF parts = <<>> THEN acc
    ELSE IF \E k \in 1..Len(acc) : acc[k] = Head(parts)
         THEN Dedup(Tail(parts), acc)
         ELSE Dedup(Tail(parts), Append(acc, Head(parts)))

(* get_bodyparts_from_xma: the marker part of every column name, without
   duplicates, in order of first appearance. *)
GetBodypartsFromXma(columns) ==
    Dedup([k \in 1..Len(columns) |-> RSplitHead(columns[k], 2)], <<>>)

(* XMADataProcessor.get_bodyparts_from_xma(path_to_trial, mode, split_markers,
   crossed_markers), on the columns of the CSV it reads. *)
GetBodypartsInMode(columns, mode, split_markers, crossed_markers) ==
    LET heads(k) == [i \in 1..Len(columns) |-> RSplitHead(columns[i], k)]
        rgb == heads(1)
        sw == [i \in 1..Len(rgb) |-> <<"sw">> \o rgb[i]]
        with_sw == IF split_markers THEN rgb \o sw ELSE rgb
        cx == [i \in 1..Len(columns) |-> <<"cx">> \o heads(2)[i] \o <<"cam1x2">>]
        with_cx == IF crossed_markers THEN with_sw \o cx ELSE with_sw
    IN IF mode = "rgb"
       THEN [error |-> "none", parts |-> Dedup(with_cx, <<>>)]
       ELSE IF mode \in {"2D", "per_cam"}
       THEN [error |-> "none", parts |-> Dedup(heads(2), <<>>)]
       ELSE [error |-> "SyntaxError", parts |-> <<>>]

(* The markers of the coordinate tables; the cell (row, part, cam, axis) of a
   table is the cell of row `row` in the column ColName(part, cam, axis). *)
Parts == {M1, M2}

-----------------------------------------------------------------------------
(* Crop window (autocorrect_frame, "Find point and offsets") *)

(* Mutant of PyInt: rounds down instead of toward zero. *)
PyIntFloor(h) == h \div 2

(* Python's int() of the float h/2: truncation toward zero. *)
PyInt(h) == IF h >= 0 THEN h \div 2 ELSE -((-h) \div 2)

(* math.floor of the float h/2 (the rounding the specification names). *)
Floor(h) == h \div 2

(* x_start = int(x_float - project['search_area'] + 0.5) *)
CropStart(v, r) == PyInt(v - 2 * r + 1)

(* Mutant of CropEnd: adds 1 instead of 0.5 before truncating. *)
CropEndPlusOne(v, r) == IF v + 2 * r + 2 >= 0 THEN (v + 2 * r + 2) \div 2
                        ELSE -((-(v + 2 * r + 2)) \div 2)

(* x_end = int(x_float + project['search_area'] + 0.5) *)
CropEnd(v, r) == PyInt(v + 2 * r + 1)

(* One bound of the basic slice a[start:stop] over an axis of n elements:
   a negative bound counts from the end of the axis, and the result is
   clipped to 0..n. *)
SliceIndex(i, n) ==
    IF i < 0 THEN (IF i + n < 0 THEN 0 ELSE i + n)
    ELSE (IF i > n THEN n ELSE i)

(* The indices of the axis that frame[start:stop] selects, in order: the
   slice keeps lo..hi-1, and nothing when hi <= lo. *)
SliceLo(start, stop, n) == SliceIndex(start, n)
SliceHi(start, stop, n) ==
    IF SliceIndex(stop, n) < SliceIndex(start, n)
    THEN SliceIndex(start, n) ELSE SliceIndex(stop, n)

(* subimage = frame[y_start:y_end, x_start:x_end], as the ranges of frame
   columns (x) and rows (y) it holds. *)
Subimage(x_start, x_end, y_start, y_end, w, h) ==
    [xlo |-> SliceLo(x_start, x_end, w), xhi |-> SliceHi(x_start, x_end, w),
     ylo |-> SliceLo(y_start, y_end, h), yhi |-> SliceHi(y_start, y_end, h)]

IsEmpty(sub) == sub.xhi = sub.xlo \/ sub.yhi = sub.ylo

-----------------------------------------------------------------------------
(* Inputs: frames, videos, coordinate tables *)

(* A missing value (NaN) of a table cell: no coordinate has this value. *)
NaN == -(2 * FrameSize * FrameSize)

IsNaN(v) == v = NaN

(* Image points, in half pixels. *)
Mid  == <<2000, 2000>>     \* a predicted point far from every frame edge
Out  == <<3200, 2000>>     \* a predicted point 100 pixels right of the frame
BlobA == <<2006, 2008>>    \* 5 pixels from Mid
BlobB == <<1994, 1992>>    \* 5 pixels from Mid, on the other side
BlobC == <<2002, 2000>>    \* 1 pixel from Mid
BlobFar == <<0, 2000>>     \* exactly 1000 pixels from Mid
BlobH == <<2994, 2002>>    \* next to the right edge of the frame

PredPool == {Mid, Out}

(* A frame is its size and the blobs the detection pipeline would turn into
   contours, in contour-extraction order. *)
MkFrame(blobs) == [w |-> FrameSize, h |-> FrameSize, blobs |-> blobs]

FramePool ==
    << MkFrame(<<BlobA, BlobB>>),
       MkFrame(<<>>),
       MkFrame(<<BlobFar>>),
       MkFrame(<<BlobB, BlobA, BlobH>>),
       MkFrame(<<BlobFar, BlobC, BlobA>>) >>

FrameAt(k) == FramePool[((k - 1) % Len(FramePool)) + 1]

(* A video file: the frames its decoder delivers and the frame count its
   header reports (a truncated file reports more than it delivers; the
   truncated files are those of the first variant). *)
VideoFiles ==
    {[opened |-> FALSE, frames |-> <<>>, count |-> 0]} \cup
    UNION {{[opened |-> TRUE, frames |-> [k \in 1..n |-> FrameAt(j + k)], count |-> c] :
                c \in {m \in {n, n + 1} : m <= MaxFrames /\ (m = n \/ j = 1)}} :
           j \in 1..NumVariants, n \in 0..MaxFrames}

NoVideo == [opened |-> FALSE, frames |-> <<>>, count |-> 0, pos |-> 0]
NoFrame == MkFrame(<<>>)

(* A coordinate table: rows 0..nrows-1, one cell per (row, marker, camera, axis). *)
Cells(n) == (0..(n - 1)) \X Parts \X {Cams[1], Cams[2]} \X Axes

MkTable(n, at) ==
    [nrows |-> n,
     cell |-> [c \in Cells(n) |-> IF c[4] = "X" THEN at[c[2]][1] ELSE at[c[2]][2]]]

EmptyTable == [nrows |-> 0, cell |-> [c \in {} |-> 0]]

(* Predicted points with a missing coordinate: only Y missing, both missing. *)
PartialPoint == <<Mid[1], NaN>>
AbsentPoint == <<NaN, NaN>>

PredTables ==
    {MkTable(n, at) : n \in 1..MaxRows, at \in [Parts -> PredPool]} \cup
    {MkTable(n, [p \in Parts |-> IF p = M1 THEN Mid ELSE q]) :
        n \in 1..MaxRows, q \in {PartialPoint, AbsentPoint}}

PointsFiles ==
    {[exists |-> FALSE, table |-> EmptyTable]} \cup
    {[exists |-> TRUE, table |-> t] : t \in PredTables}

(* os.listdir(f'{working_dir}/trials'): the trial folders, by number. *)
TrialFolders == {[k \in 1..n |-> k] : n \in 0..NumTrials}

(* search_area as configured in project_config.yaml, in half units:
   4, 9.5, 10, 999.5 and 1000. *)
RawSearchAreas == {8, 19, 20, 1999, 2000}

(* The trial folder as autocorrect_frame's get_bodyparts_from_xma sees it:
   the headers of its .csv files (one 2D points file with the markers of the
   coordinate tables, with one marker less, with one more; none; two). *)
XmaDirs ==
    {<<XmaColumns>>, <<ColumnsOf(<<M1>>)>>, <<ColumnsOf(<<M3, M1, M2>>)>>, <<>>,
     <<XmaColumns, XmaColumns>>}

(* dlc_yaml['bodyparts'] of a DeepLabCut config nobody edited *)
DefaultBodyparts == << <<"bodypart1">>, <<"bodypart2">>, <<"bodypart3">>, <<"objectA">> >>

(* A row of the trainingdata CSV: for each column, whether it holds a value. *)
RowFull == [k \in 1..Len(XmaColumns) |-> TRUE]
RowEmpty == [k \in 1..Len(XmaColumns) |-> FALSE]
RowPartial == [k \in 1..Len(XmaColumns) |-> k # 2]
RowAbsent == [k \in 1..Len(XmaColumns) |-> k > 2]

RowLists == UNION {[1..n -> {RowFull, RowEmpty, RowPartial, RowAbsent}] : n \in 0..MaxRows}

(* The first folder of trainingdata: whether {trial}.csv is there, the
   headers of the .csv files of the folder, the rows of {trial}.csv. *)
TrainingFolders ==
    {[named |-> FALSE, csvs |-> <<>>, rows |-> <<>>],
     [named |-> TRUE, csvs |-> <<XmaColumns, XmaColumns>>, rows |-> <<RowFull>>]} \cup
    {[named |-> TRUE, csvs |-> <<XmaColumns>>, rows |-> rs] : rs \in RowLists}

DlcBodyparts ==
    {DefaultBodyparts, <<M1, M2>>, <<M2, M1>>, <<M1>>,
     GetBodypartsInMode(XmaColumns, "rgb", FALSE, FALSE).parts}

(* project['tracking_mode']; "none" is samtools.py, which has no modes. *)
TrackingModes == {"none", "2D", "rgb", "per_cam"}

(* What load_project reads: project_config.yaml, the trainingdata folder, the
   DeepLabCut config. *)
LoadInputs ==
    [search_area : RawSearchAreas, training : TrainingFolders,
     dlc_bodyparts : DlcBodyparts, tracking_mode : TrackingModes,
     nframes : {0}, tracking_threshold : {10}, dataset_name : {"MyData"},
     cam1_frames : {1}]

-----------------------------------------------------------------------------
(* Detection and selection (autocorrect_frame) *)

(* The detection pipeline (filter_image .. cv2.findContours) is not modelled
   pixel by pixel here: a frame carries its blobs, the crop sees the blobs
   whose pixel lies in it, and findContours reports each at its position
   inside the crop plus offset=(x_start, y_start). *)
BlobInside(b, sub) ==
    /\ 2 * sub.xlo <= b[1] /\ b[1] <= 2 * (sub.xhi - 1)
    /\ 2 * sub.ylo <= b[2] /\ b[2] <= 2 * (sub.yhi - 1)

RECURSIVE FindContours(_, _, _, _)
FindContours(blobs, sub, x_start, y_start) ==
    IF blobs = <<>> THEN <<>>
    ELSE LET b == Head(blobs)
             rest == FindContours(Tail(blobs), sub, x_start, y_start)
         IN IF BlobInside(b, sub)
            THEN << <<b[1] - 2 * sub.xlo + 2 * x_start,
                      b[2] - 2 * sub.ylo + 2 * y_start>> >> \o rest
            ELSE rest

(* (x_float - cx)**2 + (y_float - cy)**2, in squared half pixels. *)
Dist2(p, c) == (p[1] - c[1]) * (p[1] - c[1]) + (p[2] - c[2]) * (p[2] - c[2])

(* dist = 1000, as a squared distance in half pixels. *)
InitDist2 == (2 * InitDist) * (2 * InitDist)

(* Mutant of Closer: a candidate at the same distance replaces the best. *)
CloserOrEqual(d2, dist2) == d2 <= dist2

(* if dist_tmp < dist *)
Closer(d2, dist2) == d2 < dist2

RECURSIVE ClosestFrom(_, _, _, _, _)
ClosestFrom(p, centers, i, dist2, best_index) ==
    IF i > Len(centers) THEN best_index
    ELSE IF Closer(Dist2(p, centers[i]), dist2)
         THEN ClosestFrom(p, centers, i + 1, Dist2(p, centers[i]), i - 1)
         ELSE ClosestFrom(p, centers, i + 1, dist2, best_index)

(* "Find closest contour": best_index, 0-based, or -1. *)
ClosestContour(p, centers) == ClosestFrom(p, centers, 1, InitDist2, -1)

(* if best_index >= 0 *)
HasBest(best_index) == best_index >= 0

(* The row labels and the column names of a table. *)
RowLabels(t) == {c[1] : c \in DOMAIN t.cell}
ColumnNames(t) == {<<c[2], c[3], c[4]>> : c \in DOMAIN t.cell}

(* csv.loc[row, column] = value.  pandas sets with enlargement: a row label
   or a column name the table lacks is added, its other cells NaN. *)
SetLoc(t, key, value) ==
    IF key \in DOMAIN t.cell
    THEN [t EXCEPT !.cell[key] = value]
    ELSE LET rows == RowLabels(t) \cup {key[1]}
             cols == ColumnNames(t) \cup {<<key[2], key[3], key[4]>>}
             keys == {<<r, c[1], c[2], c[3]>> : r \in rows, c \in cols}
         IN [nrows |-> Cardinality(rows),
             cell |-> [c \in keys |-> IF c = key THEN value
                                      ELSE IF c \in DOMAIN t.cell THEN t.cell[c]
                                      ELSE NaN]]

(* Mutant of SaveCenter: with no best contour, the cells are reset to 0. *)
SaveCenterOrZero(t, row, part, cam, centers, best_index) ==
    IF best_index >= 0
    THEN [t EXCEPT !.cell[<<row, part, cam, "X">>] = centers[best_index + 1][1],
                   !.cell[<<row, part, cam, "Y">>] = centers[best_index + 1][2]]
    ELSE [t EXCEPT !.cell[<<row, part, cam, "X">>] = 0,
                   !.cell[<<row, part, cam, "Y">>] = 0]

(* Mutant of SaveCenter: the center is saved at the row after the frame's. *)
SaveCenterNextRow(t, row, part, cam, centers, best_index) ==
    IF best_index >= 0
    THEN SetLoc(SetLoc(t, <<row + 1, part, cam, "X">>, centers[best_index + 1][1]),
                <<row + 1, part, cam, "Y">>, centers[best_index + 1][2])
    ELSE t

(* Mutant of SaveCenter: the camera is dropped from the column name, the
   center is saved for both cameras. *)
SaveCenterBothCams(t, row, part, cam, centers, best_index) ==
    IF best_index >= 0
    THEN SetLoc(SetLoc(SetLoc(SetLoc(t,
            <<row, part, "cam1", "X">>, centers[best_index + 1][1]),
            <<row, part, "cam1", "Y">>, centers[best_index + 1][2]),
            <<row, part, "cam2", "X">>, centers[best_index + 1][1]),
            <<row, part, "cam2", "Y">>, centers[best_index + 1][2])
    ELSE t

(* Mutant of SaveCenter: only the X cell is written. *)
SaveCenterOnlyX(t, row, part, cam, centers, best_index) ==
    IF HasBest(best_index)
    THEN SetLoc(t, <<row, part, cam, "X">>, centers[best_index + 1][1])
    ELSE t

(* "Save center of closest contour to CSV" *)
SaveCenter(t, row, part, cam, centers, best_index) ==
    IF HasBest(best_index)
    THEN SetLoc(SetLoc(t, <<row, part, cam, "X">>, centers[best_index + 1][1]),
                <<row, part, cam, "Y">>, centers[best_index + 1][2])
    ELSE t

-----------------------------------------------------------------------------
(* The engine: autocorrect_trial, autocorrect_video, autocorrect_frame *)

NoError == [type |-> "none", path |-> <<>>]

NoLoad ==
    [inp |-> [search_area |-> 0,
              training |-> [named |-> FALSE, csvs |-> <<>>, rows |-> <<>>],
              dlc_bodyparts |-> <<>>, tracking_mode |-> "none",
              nframes |-> 0, tracking_threshold |-> 0, dataset_name |-> "",
              cam1_frames |-> 0],
     res |-> [error |-> "none", search_area |-> 0, dlc_bodyparts |-> <<>>,
              saved |-> FALSE, nframes |-> 0, yaml_nframes |-> 0,
              warnings |-> {}]]

NoLast ==
    [step |-> "none", trial |-> 0, cam |-> "", row |-> 0, part |-> <<>>,
     x_float |-> 0, y_float |-> 0, x_start |-> 0, x_end |-> 0,
     y_start |-> 0, y_end |-> 0, sub |-> Subimage(0, 0, 0, 0, 0, 0),
     contours |-> <<>>, best_index |-> -1, before |-> EmptyTable,
     table |-> EmptyTable, load |-> NoLoad]

NoFn == [op |-> "none", v |-> 0, r |-> 0, n |-> 0, start |-> 0, end |-> 0,
         lo |-> 0, hi |-> 0, img |-> <<>>, threshold |-> 0, mask |-> <<>>]

(* new_data_path + '/' + trial + '/' + trial + '_' + cam + '.avi' *)
VideoPath(trial, cam) == <<"trials", trial, trial, cam, ".avi">>

(* .../it{iteration}/{trial}-Predicted2DPoints.csv *)
PointsPath(trial) == <<"trials", trial, "it", trial, "-Predicted2DPoints.csv">>

(* .../it{iteration}/{trial}-AutoCorrected2DPoints.csv *)
OutName(trial) == <<"trials", trial, "it", trial, "-AutoCorrected2DPoints.csv">>

(* Mutant of ClampSearchArea: int() without the + 0.5. *)
TruncateSearchArea(raw) ==
    IF raw >= 2 * MinSearchArea THEN PyInt(raw) ELSE MinSearchArea

(* project['search_area'] = int(project['search_area'] + 0.5)
   if project['search_area'] >= 10 else 10; raw is in half units. *)
ClampSearchArea(raw) ==
    IF raw >= 2 * MinSearchArea THEN PyInt(raw + 1) ELSE MinSearchArea

(* The .csv files get_bodyparts_from_xma finds in a folder: more than one is
   FileExistsError, none is FileNotFoundError. *)
CsvListError(csvs) ==
    IF Len(csvs) > 1 THEN "FileExistsError"
    ELSE IF Len(csvs) <= 0 THEN "FileNotFoundError"
    ELSE "none"

(* trial_csv.dropna(how='all') *)
DropnaAll(rows) ==
    LET Tracked(row) == \E k \in 1..Len(row) : row[k]
    IN SelectSeq(rows, Tracked)

(* trial_csv.isna().sum().sum() > 0 *)
AnyNa(rows) == \E i \in 1..Len(rows) : \E k \in 1..Len(rows[i]) : ~rows[i][k]

(* Mutant of BodypartsDiffer: the marker names are never compared. *)
BodypartsNeverDiffer(bodyparts, from_xma) == FALSE

(* dlc_yaml['bodyparts'] != get_bodyparts_from_xma(...) *)
BodypartsDiffer(bodyparts, from_xma) == bodyparts # from_xma

(* Mutant of DefaultNframes: the configured value is kept as it is. *)
KeepNframes(nframes, tracked) == nframes

(* if project['nframes'] <= 0: project['nframes'] = len(trial_csv) *)
DefaultNframes(nframes, tracked) == IF nframes <= 0 THEN tracked ELSE nframes

(* Mutant of NframesMismatch: the two numbers are never compared. *)
NframesNeverMismatch(nframes, tracked) == FALSE

(* elif project['nframes'] != len(trial_csv) *)
NframesMismatch(nframes, tracked) == nframes > 0 /\ nframes # tracked

(* Mutant of BelowThreshold: the video is never compared. *)
NeverBelowThreshold(nframes, frame_count, threshold) == FALSE

(* project['nframes'] < int(video.get(cv2.CAP_PROP_FRAME_COUNT)) *
   project['tracking_threshold'], the threshold in hundredths; with the
   frame counts of the model the float product compares with an integer as
   the exact product does. *)
BelowThreshold(nframes, frame_count, threshold) ==
    nframes * 100 < frame_count * threshold

(* warnings.warn(message, category) *)
Warning(category, about) == [category |-> category, about |-> about]

(* load_project: the exception it raises or the search_area and nframes of
   the project it returns, the warnings it issues, the bodyparts the
   DeepLabCut config holds afterwards, whether project_config.yaml was
   written back and the nframes it holds afterwards.  In the mode "per_cam"
   (sdlc_xmalab.py) the check of the second config calls
   get_bodyparts_from_xma with four arguments, a TypeError. *)
LoadProjectOf(inp) ==
    LET t == inp.training
        from_xma == IF inp.tracking_mode = "none"
                    THEN GetBodypartsFromXma(t.csvs[1])
                    ELSE GetBodypartsInMode(t.csvs[1], inp.tracking_mode,
                                            FALSE, FALSE).parts
        tracked == Len(DropnaAll(t.rows))
        nframes == DefaultNframes(inp.nframes, tracked)
        named == IF inp.dataset_name = "MyData"
                 THEN {Warning("SyntaxWarning", "dataset_name")} ELSE {}
        counted == named \cup
                   IF NframesMismatch(inp.nframes, tracked)
                   THEN {Warning("UserWarning", "nframes")} ELSE {}
        warned == counted \cup
                  IF BelowThreshold(nframes, inp.cam1_frames, inp.tracking_threshold)
                  THEN {Warning("UserWarning", "threshold")} ELSE {}
        Failed(type, bodyparts, warnings) ==
            [error |-> type, search_area |-> 0, dlc_bodyparts |-> bodyparts,
             saved |-> FALSE, nframes |-> inp.nframes,
             yaml_nframes |-> inp.nframes, warnings |-> warnings]
    IN IF ~t.named THEN Failed("FileNotFoundError", inp.dlc_bodyparts, named)
       ELSE IF AnyNa(DropnaAll(t.rows))
            THEN Failed("AttributeError", inp.dlc_bodyparts, named)
       ELSE IF CsvListError(t.csvs) # "none"
            THEN Failed(CsvListError(t.csvs), inp.dlc_bodyparts, warned)
       ELSE IF /\ inp.dlc_bodyparts # DefaultBodyparts
               /\ BodypartsDiffer(inp.dlc_bodyparts, from_xma)
            THEN Failed("SyntaxError", inp.dlc_bodyparts, warned)
       ELSE IF inp.tracking_mode = "per_cam"
            THEN Failed("TypeError",
                        IF inp.dlc_bodyparts = DefaultBodyparts THEN from_xma
                        ELSE inp.dlc_bodyparts, warned)
       ELSE [error |-> "none",
             search_area |-> ClampSearchArea(inp.search_area),
             dlc_bodyparts |-> IF inp.dlc_bodyparts = DefaultBodyparts
                               THEN from_xma ELSE inp.dlc_bodyparts,
             saved |-> TRUE, nframes |-> nframes, yaml_nframes |-> nframes,
             warnings |-> warned]

NoProject == [search_area |-> 0]

Init ==
    /\ pc = "load"
    /\ project = NoProject
    /\ trials = <<>>
    /\ trial_i = 0
    /\ cam_i = 0
    /\ frame_index = 0
    /\ part_i = 0
    /\ parts_unique = <<>>
    /\ csv = EmptyTable
    /\ points_in = EmptyTable
    /\ video = NoVideo
    /\ frame = NoFrame
    /\ outputs = [t \in 1..NumTrials |-> 0]
    /\ error = NoError
    /\ last = NoLast
    /\ log = <<>>
    /\ xma = <<>>
    /\ fn = NoFn

(* Mutant of Raise: the table of the trial is written on the way out. *)
RaiseAfterSaving(type, path, step) ==
    /\ pc' = "raised"
    /\ error' = [type |-> type, path |-> path]
    /\ last' = [NoLast EXCEPT !.step = step]
    /\ outputs' = [outputs EXCEPT ![trials[trial_i]] = @ + 1]
    /\ UNCHANGED <<project, trials, trial_i, cam_i, frame_index, part_i,
                   parts_unique, csv, points_in, frame, log, xma, fn>>

(* An exception leaves autocorrect_trial: nothing after it runs. *)
Raise(type, path, step) ==
    /\ pc' = "raised"
    /\ error' = [type |-> type, path |-> path]
    /\ last' = [NoLast EXCEPT !.step = step]
    /\ UNCHANGED <<project, trials, trial_i, cam_i, frame_index, part_i,
                   parts_unique, csv, points_in, frame, outputs, log, xma, fn>>

(* project = load_project(working_dir); the engine reads search_area from it *)
LoadProject ==
    /\ pc = "load"
    /\ \E inp \in LoadInputs :
         LET res == LoadProjectOf(inp)
         IN /\ last' = [NoLast EXCEPT !.step = "load",
                                      !.load = [inp |-> inp, res |-> res]]
            /\ IF res.error # "none"
               THEN /\ pc' = "raised"
                    /\ error' = [type |-> res.error, path |-> <<>>]
                    /\ UNCHANGED project
               ELSE /\ pc' = "listdir"
                    /\ project' = [search_area |-> res.search_area]
                    /\ UNCHANGED error
    /\ UNCHANGED <<trials, trial_i, cam_i, frame_index, part_i, parts_unique,
                   csv, points_in, video, frame, outputs, log, xma, fn>>

(* Mutant of IsEmptyDir: the listing is never looked at. *)
NeverEmptyDir(listed) == FALSE

(* len(os.listdir(f'{working_dir}/trials')) <= 0 *)
IsEmptyDir(listed) == Len(listed) <= 0

(* "Error if trials directory is empty", then the first trial of the loop *)
CheckTrials ==
    /\ pc = "listdir"
    /\ \E listed \in TrialFolders :
         /\ trials' = listed
         /\ IF IsEmptyDir(listed)
            THEN /\ pc' = "raised"
                 /\ error' = [type |-> "FileNotFoundError", path |-> <<"trials">>]
                 /\ UNCHANGED trial_i
            ELSE /\ pc' = "points"
                 /\ trial_i' = 1
                 /\ UNCHANGED error
    /\ last' = [NoLast EXCEPT !.step = "listdir"]
    /\ UNCHANGED <<project, cam_i, frame_index, part_i, parts_unique, csv,
                   points_in, video, frame, outputs, log, xma, fn>>

(* csv = pd.read_csv(... + trial + '-Predicted2DPoints.csv') *)
ReadPoints ==
    /\ pc = "points"
    /\ \E f \in PointsFiles :
         IF ~f.exists
         THEN /\ Raise("FileNotFoundError", PointsPath(trials[trial_i]), "points")
              /\ UNCHANGED video
         ELSE /\ pc' = "open"
              /\ csv' = f.table
              /\ points_in' = f.table
              /\ cam_i' = 1
              /\ log' = <<>>
              /\ xma' \in XmaDirs
              /\ last' = [NoLast EXCEPT !.step = "points", !.trial = trials[trial_i]]
              /\ UNCHANGED <<project, trials, trial_i, frame_index, part_i,
                             parts_unique, video, frame, outputs, error, fn>>

(* Mutant of AfterVideo: the table is written after the first camera. *)
AfterFirstVideo(ci) == [pc |-> "save", cam_i |-> ci, frame_index |-> 0]

(* Where the run goes when the frame loop of a camera is over. *)
AfterVideo(ci) ==
    IF ci < Len(Cams)
    THEN [pc |-> "open", cam_i |-> ci + 1, frame_index |-> 0]
    ELSE [pc |-> "save", cam_i |-> ci, frame_index |-> 0]

(* Mutant of NextFrameIndex: the loop steps by two frames. *)
SkipFrameIndex(fi) == fi + 2

(* for frame_index in range(int(video.get(cv2.CAP_PROP_FRAME_COUNT))) *)
NextFrameIndex(fi) == fi + 1

AfterFrame(ci, fi, count) ==
    IF NextFrameIndex(fi) < count
    THEN [pc |-> "read", cam_i |-> ci, frame_index |-> NextFrameIndex(fi)]
    ELSE AfterVideo(ci)

(* Mutant of IsOpened: the check of the capture is dropped. *)
AlwaysOpened(v) == TRUE

(* video.isOpened() *)
IsOpened(v) == v.opened

(* video = cv2.VideoCapture(video_path); if not video.isOpened(): raise *)
OpenVideo ==
    /\ pc = "open"
    /\ \E v \in VideoFiles :
         IF ~IsOpened(v)
         THEN /\ Raise("FileNotFoundError",
                       VideoPath(trials[trial_i], Cams[cam_i]), "open")
              /\ video' = [opened |-> v.opened, frames |-> v.frames,
                           count |-> v.count, pos |-> 0]
         ELSE LET to == IF 0 < v.count
                        THEN [pc |-> "read", cam_i |-> cam_i, frame_index |-> 0]
                        ELSE AfterVideo(cam_i)
              IN /\ pc' = to.pc
                 /\ cam_i' = to.cam_i
                 /\ frame_index' = to.frame_index
                 /\ video' = [opened |-> v.opened, frames |-> v.frames,
                              count |-> v.count, pos |-> 0]
                 /\ last' = [NoLast EXCEPT !.step = "open",
                                           !.trial = trials[trial_i],
                                           !.cam = Cams[cam_i]]
                 /\ log' = Append(log, [ev |-> "open", cam |-> Cams[cam_i],
                                        frame_index |-> 0, pos |-> 0,
                                        part |-> <<>>, count |-> v.count,
                                        frames |-> v.frames])
                 /\ UNCHANGED <<project, trials, trial_i, part_i, parts_unique,
                                csv, points_in, frame, outputs, error, xma, fn>>

(* Mutant of ReadFailed: the flag returned by video.read() is ignored. *)
ReadNeverFailed(ret) == FALSE

(* if ret is False *)
ReadFailed(ret) == ret = FALSE

(* ret, frame = video.read(); if ret is False: raise IOError; then the head of
   autocorrect_frame: parts_unique = get_bodyparts_from_xma(...).  read()
   returns ret = False and no image when the decoder has no frame left. *)
ReadFrame ==
    /\ pc = "read"
    /\ LET ret == video.pos < Len(video.frames)
       IN
       IF ReadFailed(ret)
       THEN Raise("IOError", <<>>, "read") /\ UNCHANGED video
       ELSE LET listed == CsvListError(xma)
                parts == IF listed = "none" THEN GetBodypartsFromXma(xma[1])
                         ELSE parts_unique
                to == IF listed # "none"
                      THEN [pc |-> "raised", cam_i |-> cam_i,
                            frame_index |-> frame_index]
                      ELSE IF parts = <<>>
                      THEN AfterFrame(cam_i, frame_index, video.count)
                      ELSE [pc |-> "part", cam_i |-> cam_i,
                            frame_index |-> frame_index]
            IN /\ frame' = IF ret THEN video.frames[video.pos + 1] ELSE NoFrame
               /\ video' = [video EXCEPT !.pos = IF ret THEN @ + 1 ELSE @]
               /\ parts_unique' = parts
               /\ part_i' = 1
               /\ pc' = to.pc
               /\ cam_i' = to.cam_i
               /\ frame_index' = to.frame_index
               /\ error' = IF listed # "none"
                           THEN [type |-> listed, path |-> <<"trials", trials[trial_i]>>]
                           ELSE error
               /\ log' = Append(log, [ev |-> "decode", cam |-> Cams[cam_i],
                                      frame_index |-> frame_index,
                                      pos |-> video.pos, part |-> <<>>,
                                      count |-> video.count, frames |-> <<>>])
               /\ last' = [NoLast EXCEPT !.step = "read",
                                         !.trial = trials[trial_i],
                                         !.cam = Cams[cam_i],
                                         !.row = frame_index]
               /\ UNCHANGED <<project, trials, trial_i, csv, points_in,
                              outputs, xma, fn>>

(* One iteration of "for part in parts_unique" in autocorrect_frame: read the
   predicted point, crop, filter, detect, select, write.  The filter pipeline
   starts with cv2.GaussianBlur (filter_image), which rejects an empty image
   with cv2.error; reading a row or a column the table does not have is a
   KeyError; int() of a missing coordinate (NaN) is a ValueError. *)
AutocorrectPart ==
    /\ pc = "part"
    /\ LET trial == trials[trial_i]
           cam == Cams[cam_i]
           part == parts_unique[part_i]
       IN IF \/ <<frame_index, part, cam, "X">> \notin DOMAIN csv.cell
             \/ <<frame_index, part, cam, "Y">> \notin DOMAIN csv.cell
          THEN /\ Raise("KeyError",
                        IF frame_index \in RowLabels(csv)
                        THEN ColName(part, cam, "X") ELSE <<frame_index>>, "loc")
               /\ UNCHANGED video
          ELSE IF IsNaN(csv.cell[<<frame_index, part, cam, "X">>])
                  \/ IsNaN(csv.cell[<<frame_index, part, cam, "Y">>])
          THEN /\ pc' = "raised"
               /\ error' = [type |-> "ValueError", path |-> <<>>]
               /\ last' = [NoLast EXCEPT !.step = "int", !.trial = trial,
                              !.cam = cam, !.row = frame_index, !.part = part,
                              !.x_float = csv.cell[<<frame_index, part, cam, "X">>],
                              !.y_float = csv.cell[<<frame_index, part, cam, "Y">>],
                              !.before = csv]
               /\ UNCHANGED <<project, trials, trial_i, cam_i, frame_index,
                              part_i, parts_unique, csv, points_in, video,
                              frame, outputs, log, xma, fn>>
          ELSE
          LET x_float == csv.cell[<<frame_index, part, cam, "X">>]
              y_float == csv.cell[<<frame_index, part, cam, "Y">>]
              x_start == CropStart(x_float, project.search_area)
              y_start == CropStart(y_float, project.search_area)
              x_end == CropEnd(x_float, project.search_area)
              y_end == CropEnd(y_float, project.search_area)
              sub == Subimage(x_start, x_end, y_start, y_end, frame.w, frame.h)
              contours == FindContours(frame.blobs, sub, x_start, y_start)
              best_index == ClosestContour(<<x_float, y_float>>, contours)
              to == IF part_i < Len(parts_unique)
                    THEN [pc |-> "part", cam_i |-> cam_i,
                          frame_index |-> frame_index]
                    ELSE AfterFrame(cam_i, frame_index, video.count)
              seen == [NoLast EXCEPT !.step = "part", !.trial = trial,
                          !.cam = cam, !.row = frame_index, !.part = part,
                          !.x_float = x_float, !.y_float = y_float,
                          !.x_start = x_start, !.x_end = x_end,
                          !.y_start = y_start, !.y_end = y_end,
                          !.sub = sub, !.before = csv]
          IN IF IsEmpty(sub)
             THEN /\ pc' = "raised"
                  /\ error' = [type |-> "cv2.error", path |-> <<>>]
                  /\ last' = seen
                  /\ UNCHANGED <<project, trials, trial_i, cam_i, frame_index,
                                 part_i, parts_unique, csv, points_in, video,
                                 frame, outputs, log, xma, fn>>
             ELSE /\ csv' = SaveCenter(csv, frame_index, part, cam, contours,
                                       best_index)
                  /\ last' = [seen EXCEPT !.contours = contours,
                                          !.best_index = best_index]
                  /\ log' = Append(log, [ev |-> "process", cam |-> cam,
                                         frame_index |-> frame_index,
                                         pos |-> video.pos, part |-> part,
                                         count |-> video.count, frames |-> <<>>])
                  /\ part_i' = IF part_i < Len(parts_unique) THEN part_i + 1 ELSE 1
                  /\ pc' = to.pc
                  /\ cam_i' = to.cam_i
                  /\ frame_index' = to.frame_index
                  /\ UNCHANGED <<project, trials, trial_i, parts_unique,
                                 points_in, video, frame, outputs, error, xma, fn>>

(* csv.to_csv(out_name, index=False), then the next trial of the loop.  The
   locals of autocorrect_video and autocorrect_frame (video, frame,
   parts_unique) are gone by now: both functions have returned. *)
SaveTrial ==
    /\ pc = "save"
    /\ outputs' = [outputs EXCEPT ![trials[trial_i]] = @ + 1]
    /\ last' = [NoLast EXCEPT !.step = "save", !.trial = trials[trial_i],
                              !.table = csv]
    /\ IF trial_i < Len(trials)
       THEN pc' = "points" /\ trial_i' = trial_i + 1
       ELSE pc' = "done" /\ trial_i' = trial_i
    /\ video' = NoVideo
    /\ frame' = NoFrame
    /\ parts_unique' = <<>>
    /\ part_i' = 0
    /\ UNCHANGED <<project, trials, cam_i, frame_index, csv, points_in, error,
                   log, xma, fn>>

Next ==
    \/ LoadProject
    \/ CheckTrials
    \/ ReadPoints
    \/ OpenVideo
    \/ ReadFrame
    \/ AutocorrectPart
    \/ SaveTrial

Spec == Init /\ [][Next]_vars

-----------------------------------------------------------------------------
(* The crop window as a pure function of (coordinate, search_area, axis size).
   The X and the Y axis use the same expressions (x_start/x_end against the
   frame width, y_start/y_end against the frame height); fn holds one axis. *)

EngineIdle ==
    /\ pc = "idle"
    /\ project = [search_area |-> MinSearchArea]
    /\ trials = <<>>
    /\ trial_i = 0
    /\ cam_i = 0
    /\ frame_index = 0
    /\ part_i = 0
    /\ parts_unique = <<>>
    /\ csv = EmptyTable
    /\ points_in = EmptyTable
    /\ video = NoVideo
    /\ frame = NoFrame
    /\ outputs = [t \in 1..NumTrials |-> 0]
    /\ error = NoError
    /\ last = NoLast
    /\ log = <<>>
    /\ xma = <<>>

AxisSizes == {n \in 1..MaxAxis : n % 6 = 0}

InitCrop ==
    /\ EngineIdle
    /\ fn \in {[NoFn EXCEPT !.op = "crop_in", !.v = v, !.r = r, !.n = n] :
                 v \in (-2 * MaxCoord)..(2 * MaxCoord),
                 r \in MinSearchArea..MaxRadius,
                 n \in AxisSizes}

(* start, end and the pixels of the axis that frame[start:end] keeps *)
ApplyCrop ==
    /\ fn.op = "crop_in"
    /\ fn' = [fn EXCEPT !.op = "crop",
                        !.start = CropStart(fn.v, fn.r),
                        !.end = CropEnd(fn.v, fn.r),
                        !.lo = SliceLo(CropStart(fn.v, fn.r), CropEnd(fn.v, fn.r), fn.n),
                        !.hi = SliceHi(CropStart(fn.v, fn.r), CropEnd(fn.v, fn.r), fn.n)]
    /\ UNCHANGED engineVars

NextCrop == ApplyCrop

SpecCrop == InitCrop /\ [][NextCrop]_vars

-----------------------------------------------------------------------------
(* The thresholding step of autocorrect_frame as a pure function of the
   single-channel image it is given (subimage_median after cvtColor, here the
   sequence of its pixels) and of project['threshold']. *)

RECURSIVE SumSeq(_)
SumSeq(q) == IF q = <<>> THEN 0 ELSE Head(q) + SumSeq(Tail(q))

(* min_val of cv2.minMaxLoc *)
MinVal(q) == CHOOSE m \in {q[k] : k \in 1..Len(q)} : \A k \in 1..Len(q) : m <= q[k]

(* Mutant of AboveThres: src >= thres. *)
AtOrAboveThres(src, img, threshold) ==
    200 * Len(img) * src >=
        100 * Len(img) * MinVal(img) + 100 * SumSeq(img)
          + 2 * MaxVal * Len(img) * threshold

(* src > thres, where
   thres = 0.5 * min_val + 0.5 * np.mean(img) + threshold * 0.01 * 255;
   both sides are multiplied by 200 * Len(img) to stay in the integers. *)
AboveThres(src, img, threshold) ==
    200 * Len(img) * src >
        100 * Len(img) * MinVal(img) + 100 * SumSeq(img)
          + 2 * MaxVal * Len(img) * threshold

(* cv2.threshold(img, thres, 255, cv2.THRESH_BINARY_INV):
   dst = 0 where src > thres, maxval elsewhere *)
ThresholdBinaryInv(img, threshold) ==
    [k \in 1..Len(img) |-> IF AboveThres(img[k], img, threshold) THEN 0 ELSE MaxVal]

Intensities == {0, 100, MaxVal}
Thresholds == {-100, 0, 8, 100}

Images == UNION {[1..n -> Intensities] : n \in 1..MaxPixels}

IsUniform(img) == \A j, k \in 1..Len(img) : img[j] = img[k]

InitThresh ==
    /\ EngineIdle
    /\ fn \in {[NoFn EXCEPT !.op = "thresh_in", !.img = img, !.threshold = t] :
                 img \in Images, t \in Thresholds}

ApplyThreshold ==
    /\ fn.op = "thresh_in"
    /\ fn' = [fn EXCEPT !.op = "thresh",
                        !.mask = ThresholdBinaryInv(fn.img, fn.threshold)]
    /\ UNCHANGED engineVars

NextThresh == ApplyThreshold

SpecThresh == InitThresh /\ [][NextThresh]_vars

-----------------------------------------------------------------------------
(* Properties of the marker step, the crop window and the selection *)

(* The marker step that last ran got as far as contour extraction. *)
-----------------------------------------------------------------------------
(* get_bodyparts_from_xma as a pure function of the column names of the CSV
   (samtools.py) and of the mode arguments (XMADataProcessor). *)

(* Marker names of 1..MaxMarkerFields fields. *)
RECURSIVE MarkerNames(_)
MarkerNames(n) == IF n = 0 THEN {} ELSE MarkerNames(n - 1) \cup {[k \in 1..n |-> "a"]}

ColumnNamePool ==
    {ColName(m, t[1], t[2]) :
        m \in MarkerNames(MaxMarkerFields),
        t \in {<<"cam1", "X">>, <<"cam1", "Y">>, <<"cam2", "X">>}}
    \cup {<<"frame">>, <<"a", "X">>}

ColumnLists == UNION {[1..n -> ColumnNamePool] : n \in 0..MaxCols}

ModeArgs ==
    {<<m, FALSE, FALSE>> : m \in {"2D", "per_cam", "other"}} \cup
    {<<"rgb", s, c>> : s \in BOOLEAN, c \in BOOLEAN}

InitNames ==
    /\ EngineIdle
    /\ fn \in {[op |-> "names_in", columns |-> cols, mode |-> a[1],
                 split_markers |-> a[2], crossed_markers |-> a[3],
                 parts |-> <<>>, by_mode |-> [error |-> "none", parts |-> <<>>]] :
                 cols \in ColumnLists, a \in ModeArgs}

ApplyNames ==
    /\ fn.op = "names_in"
    /\ fn' = [fn EXCEPT !.op = "names",
                        !.parts = GetBodypartsFromXma(fn.columns),
                        !.by_mode = GetBodypartsInMode(fn.columns, fn.mode,
                                        fn.split_markers, fn.crossed_markers)]
    /\ UNCHANGED engineVars

NextNames == ApplyNames

SpecNames == InitNames /\ [][NextNames]_vars

-----------------------------------------------------------------------------
(* load_project as a pure function of what it reads: project_config.yaml
   (nframes, tracking_threshold, dataset_name), the trainingdata folder (the
   2D points CSV and the frame count of the cam1 video, 0 for a video that
   cannot be opened) and the bodyparts of the DeepLabCut config. *)

ConfiguredNframes == -1..(MaxRows + 1)

(* tracking_threshold in hundredths: 0.1 (the template's), 0.5 and 1 *)
TrackingThresholds == {10, 50, 100}

LoadCases ==
    [search_area : {2 * 15}, training : TrainingFolders,
     dlc_bodyparts : {DefaultBodyparts, <<M1, M2>>, <<M1>>},
     tracking_mode : {"none"}, nframes : ConfiguredNframes,
     tracking_threshold : TrackingThresholds,
     dataset_name : {"MyData", "beads"}, cam1_frames : 0..MaxTrainFrames]

InitLoad ==
    /\ EngineIdle
    /\ fn \in {[op |-> "load_in", inp |-> i, res |-> NoLoad.res] : i \in LoadCases}

ApplyLoad ==
    /\ fn.op = "load_in"
    /\ fn' = [fn EXCEPT !.op = "load", !.res = LoadProjectOf(fn.inp)]
    /\ UNCHANGED engineVars

NextLoad == ApplyLoad

SpecLoad == InitLoad /\ [][NextLoad]_vars

-----------------------------------------------------------------------------
(* jupyter_test_autocorrect as a pure function of its arguments (cam,
   marker_name, frame_num) and of what it reads: the project, the listing of
   the trials folder, the video of the first trial and its predicted points.
   It shows its intermediate images and writes nothing. *)

JupyterSearchArea == 15   \* the crop of jupyter_test_autocorrect: x_float-15+0.5

NoJupyter ==
    [error |-> "none", pos |-> -1, row |-> -1, marker |-> <<>>,
     x_float |-> 0, y_float |-> 0, contours |-> <<>>, best_index |-> -1]

JupyterTestAutocorrect(inp) ==
    LET loaded == LoadProjectOf(inp.load)
        Failed(type) == [NoJupyter EXCEPT !.error = type]
        pos == inp.frame_num - 1
        ret == inp.video.opened /\ 0 <= pos /\ pos < Len(inp.video.frames)
        marker == IF inp.marker_name = <<>>
                  THEN RSplitHead(XmaColumns[1], 2) ELSE inp.marker_name
        keyX == <<inp.frame_num, marker, inp.cam, "X">>
        keyY == <<inp.frame_num, marker, inp.cam, "Y">>
        cell == inp.points.table.cell
    IN IF loaded.error # "none" THEN Failed(loaded.error)
       ELSE IF inp.trials = <<>> THEN Failed("IndexError")
       ELSE IF ReadFailed(ret) THEN Failed("IOError")
       ELSE IF ~inp.points.exists
            THEN [Failed("UnboundLocalError") EXCEPT !.pos = pos]
       ELSE IF keyX \notin DOMAIN cell \/ keyY \notin DOMAIN cell
            THEN [Failed("KeyError") EXCEPT !.pos = pos, !.marker = marker]
       ELSE IF IsNaN(cell[keyX]) \/ IsNaN(cell[keyY])
            THEN [Failed("ValueError") EXCEPT !.pos = pos, !.marker = marker,
                                              !.row = inp.frame_num]
       ELSE LET x_float == cell[keyX]
                y_float == cell[keyY]
                x_start == CropStart(x_float, JupyterSearchArea)
                y_start == CropStart(y_float, JupyterSearchArea)
                x_end == CropEnd(x_float, JupyterSearchArea)
                y_end == CropEnd(y_float, JupyterSearchArea)
                fr == inp.video.frames[pos + 1]
                sub == Subimage(x_start, x_end, y_start, y_end, fr.w, fr.h)
                contours == FindContours(fr.blobs, sub, x_start, y_start)
                seen == [NoJupyter EXCEPT !.pos = pos, !.row = inp.frame_num,
                                          !.marker = marker,
                                          !.x_float = x_float,
                                          !.y_float = y_float]
            IN IF IsEmpty(sub) THEN [seen EXCEPT !.error = "cv2.error"]
               ELSE [seen EXCEPT !.contours = contours,
                        !.best_index = ClosestContour(<<x_float, y_float>>, contours)]

(* A project that loads and one whose trainingdata CSV is missing. *)
JupyterLoads ==
    {[search_area |-> 2 * 15, training |-> t, dlc_bodyparts |-> DefaultBodyparts,
      tracking_mode |-> "none", nframes |-> 0, tracking_threshold |-> 10,
      dataset_name |-> "MyData", cam1_frames |-> 1] :
        t \in {[named |-> TRUE, csvs |-> <<XmaColumns>>, rows |-> <<RowFull>>],
               [named |-> FALSE, csvs |-> <<>>, rows |-> <<>>]}}

JupyterCases ==
    [load : JupyterLoads, trials : {<<>>, <<1>>}, cam : {Cams[1], Cams[2]},
     marker_name : {<<>>, M2, M3}, frame_num : 1..(MaxFrames + 1),
     video : VideoFiles, points : PointsFiles]

InitJupyter ==
    /\ EngineIdle
    /\ fn \in {[op |-> "jupyter_in", inp |-> i, res |-> NoJupyter] : i \in JupyterCases}

ApplyJupyter ==
    /\ fn.op = "jupyter_in"
    /\ fn' = [fn EXCEPT !.op = "jupyter", !.res = JupyterTestAutocorrect(fn.inp)]
    /\ UNCHANGED engineVars

NextJupyter == ApplyJupyter

SpecJupyter == InitJupyter /\ [][NextJupyter]_vars

-----------------------------------------------------------------------------
(* create_new_project as a pure function of its arguments and of the file
   system it finds.  A path is the sequence of its components, so a
   working_dir written with a trailing separator ends in the empty
   component.  deeplabcut.create_new_project is outside this repository: it
   returns the path of its config file, or something that is not a string
   (the case the isinstance test is there for). *)

Null == "None"   \* what yaml.load gives for an empty scalar

ProjectDirs == {"trainingdata", "trials", "XMA_files"}

ConfigKeys ==
    {"task", "experimenter", "working_dir", "path_config_file", "dataset_name",
     "nframes", "maxiters"}

(* yaml.load of "key: {text}": an empty text, null and ~ are the YAML null. *)
YamlScalar(text) == IF text \in {"", "null", "~"} THEN Null ELSE text

(* task = working_dir.split('/')[len(working_dir.split('/')) - 1] *)
TaskOf(working_dir) == working_dir[Len(working_dir)]

(* A project_config.yaml left by an earlier run. *)
OldConfig ==
    [exists |-> TRUE,
     values |-> [k \in ConfigKeys |-> IF k = "task" THEN "old" ELSE "set"]]

NoConfig == [exists |-> FALSE, values |-> [k \in ConfigKeys |-> Null]]

CreateNewProject(inp) ==
    LET task == TaskOf(inp.working_dir)
        template ==
            [k \in ConfigKeys |->
                CASE k = "task" -> YamlScalar(task)
                  [] k = "experimenter" -> YamlScalar(inp.experimenter)
                  [] k = "working_dir" -> "working_dir"
                  [] k = "path_config_file" -> "config.yaml"
                  [] k = "dataset_name" -> YamlScalar("MyData")
                  [] k = "nframes" -> YamlScalar("0")
                  [] OTHER -> YamlScalar("150000")]
    IN [exists |-> TRUE,
        dirs |-> inp.dirs \cup ProjectDirs,
        config |-> IF inp.dlc_returns_str
                   THEN [exists |-> TRUE, values |-> template]
                   ELSE inp.config]

(* working_dir with and without a trailing separator; whether it is there,
   and then which of the folders and whether a config. *)
CreateCases ==
    {[working_dir |-> w, experimenter |-> e, exists |-> x[1], dirs |-> x[2],
      config |-> x[3], dlc_returns_str |-> d] :
        w \in {<<"home", "proj">>, <<"home", "proj", "">>},
        e \in {"NA", "sam", ""},
        x \in {<<FALSE, {}, NoConfig>>} \cup
              ({TRUE} \X (SUBSET ProjectDirs) \X {NoConfig, OldConfig}),
        d \in BOOLEAN}

NoCreated == [exists |-> FALSE, dirs |-> {}, config |-> NoConfig]

InitCreate ==
    /\ EngineIdle
    /\ fn \in {[op |-> "create_in", inp |-> i, res |-> NoCreated] : i \in CreateCases}

ApplyCreate ==
    /\ fn.op = "create_in"
    /\ fn' = [fn EXCEPT !.op = "create", !.res = CreateNewProject(fn.inp)]
    /\ UNCHANGED engineVars

NextCreate == ApplyCreate

SpecCreate == InitCreate /\ [][NextCreate]_vars

-----------------------------------------------------------------------------
(* XMADataProcessor._vid_to_pngs: the loop over the frames of a video, one
   action per iteration.  fn holds the locals of the call; a frame is known
   by its position in the video, from 1.  cv2.waitKey(1) is given no key: the
   function opens no window. *)

IndexLists == UNION {[1..n -> 0..MaxIndex] : n \in 0..MaxIndices}

PngVideos ==
    {[opened |-> FALSE, frames |-> 0]} \cup
    {[opened |-> TRUE, frames |-> n] : n \in 0..MaxPngFrames}

(* max(indices_to_match) *)
RECURSIVE MaxOf(_)
MaxOf(q) ==
    IF Len(q) = 1 THEN q[1]
    ELSE LET m == MaxOf(Tail(q)) IN IF q[1] > m THEN q[1] ELSE m

(* Mutant of NotInIndices: every frame is taken as asked for. *)
NeverNotInIndices(index, indices_to_match) == FALSE

(* frame_index not in indices_to_match *)
NotInIndices(index, indices_to_match) ==
    \A k \in 1..Len(indices_to_match) : indices_to_match[k] # index

(* out_name + "_" + str(frame_index).zfill(4) + ".png", and the frame written there *)
PngOf(index, read) == [name |-> index, frame |-> read]

InitPngs ==
    /\ EngineIdle
    /\ fn \in {[op |-> "pngs_in", indices_to_match |-> ix, video |-> v,
                 frame_index |-> 0, last_frame_to_analyze |-> 0, reads |-> 0,
                 png_list |-> <<>>, error |-> "none"] :
                 ix \in IndexLists, v \in PngVideos}

(* frame_index = 1; last_frame_to_analyze = max(indices_to_match) (ValueError
   for an empty list); cap = cv2.VideoCapture(video_path) *)
PngsEnter ==
    /\ fn.op = "pngs_in"
    /\ fn' = IF fn.indices_to_match = <<>>
             THEN [fn EXCEPT !.op = "pngs_raised", !.error = "ValueError",
                             !.frame_index = 1]
             ELSE [fn EXCEPT !.op = IF fn.video.opened THEN "pngs_loop"
                                    ELSE "pngs_returned",
                             !.frame_index = 1,
                             !.last_frame_to_analyze = MaxOf(fn.indices_to_match)]
    /\ UNCHANGED engineVars

(* One iteration of "while cap.isOpened()" *)
PngsIterate ==
    /\ fn.op = "pngs_loop"
    /\ LET ret == fn.reads < fn.video.frames
           read == [fn EXCEPT !.reads = @ + 1]
       IN fn' = IF ReadFailed(ret) THEN [read EXCEPT !.op = "pngs_returned"]
                ELSE IF fn.frame_index > fn.last_frame_to_analyze
                THEN [read EXCEPT !.op = "pngs_returned"]
                ELSE IF NotInIndices(fn.frame_index, fn.indices_to_match)
                THEN [read EXCEPT !.frame_index = @ + 1]
                ELSE [read EXCEPT !.frame_index = @ + 1,
                         !.png_list = Append(@, PngOf(fn.frame_index, fn.reads + 1))]
    /\ UNCHANGED engineVars

NextPngs == PngsEnter \/ PngsIterate

SpecPngs == InitPngs /\ [][NextPngs]_vars

-----------------------------------------------------------------------------
(* Claims *)

Detected == last.step = "part" /\ ~IsEmpty(last.sub)

CellX == <<last.row, last.part, last.cam, "X">>
CellY == <<last.row, last.part, last.cam, "Y">>
Predicted == <<last.x_float, last.y_float>>

(* C1: when contour extraction yields no candidate, the X and Y cells of the
   (frame, marker, camera) being processed hold after the step exactly what
   they held before it, and the step raises nothing. *)
C1_NoCandidateKeepsCells ==
    (Detected /\ last.contours = <<>>) =>
        /\ csv.cell[CellX] = last.before.cell[CellX]
        /\ csv.cell[CellY] = last.before.cell[CellY]
        /\ error = NoError
        /\ pc # "raised"

C1_Witness ==
    /\ Detected
    /\ last.contours = <<>>
    /\ csv.cell[CellX] = last.x_float
    /\ csv.cell[CellY] = last.y_float

(* C2: for every non-empty candidate set the step writes the centroid of a
   candidate whose distance to the predicted point is minimal over the whole
   set, whatever that distance is (a single candidate is always written). *)
C2_NearestCandidateWritten ==
    (Detected /\ last.contours # <<>>) =>
        \E i \in 1..Len(last.contours) :
            /\ \A j \in 1..Len(last.contours) :
                  Dist2(Predicted, last.contours[i]) <= Dist2(Predicted, last.contours[j])
            /\ csv.cell[CellX] = last.contours[i][1]
            /\ csv.cell[CellY] = last.contours[i][2]

(* The candidates at minimal distance from the predicted point. *)
Nearest ==
    {i \in 1..Len(last.contours) :
        \A j \in 1..Len(last.contours) :
            Dist2(Predicted, last.contours[i]) <= Dist2(Predicted, last.contours[j])}

(* C3: when several candidates are at exactly the same minimal distance, the
   candidate the step selects is the one of lowest index, in contour
   extraction order, among those tied; its centroid is what is written. *)
C3_TieTakesFirst ==
    (Detected /\ Cardinality(Nearest) >= 2 /\ last.best_index >= 0) =>
        /\ last.best_index + 1 \in Nearest
        /\ \A j \in Nearest : last.best_index + 1 <= j
        /\ csv.cell[CellX] = last.contours[last.best_index + 1][1]
        /\ csv.cell[CellY] = last.contours[last.best_index + 1][2]

C3_Witness ==
    /\ Detected
    /\ Cardinality(Nearest) >= 2
    /\ last.best_index >= 0
    /\ \A j \in Nearest : last.best_index + 1 <= j
    /\ \E j \in Nearest : j > last.best_index + 1
    /\ csv.cell[CellX] = last.contours[last.best_index + 1][1]

(* The window [v - r, v + r] lies inside an axis of fn.n pixels, 0..n-1: it is
   not cut by a frame edge. *)
Uncut == fn.op = "crop" /\ 0 <= fn.v - 2 * fn.r /\ fn.v + 2 * fn.r <= 2 * (fn.n - 1)

(* C4 as stated: for search_area >= 10 and a window not cut by the frame
   edges, end - start = 2*search_area + 1, and the crop has that many pixels. *)
C4_WidthTwoRPlusOne ==
    (Uncut /\ fn.r >= MinSearchArea) =>
        /\ fn.end - fn.start = 2 * fn.r + 1
        /\ fn.hi - fn.lo = 2 * fn.r + 1

(* C4 amended: for search_area >= 10 and a window not cut by the frame edges,
   end - start = 2*search_area, and the crop has that many pixels. *)
C4_WidthTwoR ==
    (Uncut /\ fn.r >= MinSearchArea) =>
        /\ fn.end - fn.start = 2 * fn.r
        /\ fn.hi - fn.lo = 2 * fn.r

C4_Witness ==
    /\ Uncut
    /\ fn.r >= MinSearchArea
    /\ fn.hi - fn.lo = 2 * fn.r
    /\ fn.v % 2 = 1

(* C5 as stated: for every coordinate v, negative v - r + 0.5 included,
   start = floor(v - r + 0.5) and end = floor(v + r + 0.5). *)
C5_BoundsAreFloor ==
    fn.op = "crop" =>
        /\ fn.start = Floor(fn.v - 2 * fn.r + 1)
        /\ fn.end = Floor(fn.v + 2 * fn.r + 1)

(* The float a/2 rounded toward zero, written from floor: floor when the value
   is non-negative or whole, floor + 1 when it is negative and not whole. *)
TowardZero(a) == IF a >= 0 \/ a % 2 = 0 THEN Floor(a) ELSE Floor(a) + 1

(* C5 amended: start and end are v - r + 0.5 and v + r + 0.5 rounded toward
   zero: the floor when the value is non-negative or whole, the floor plus one
   when it is negative and not whole. *)
C5_BoundsTruncate ==
    fn.op = "crop" =>
        /\ fn.start = TowardZero(fn.v - 2 * fn.r + 1)
        /\ fn.end = TowardZero(fn.v + 2 * fn.r + 1)

C5_Witness ==
    /\ fn.op = "crop"
    /\ fn.v - 2 * fn.r + 1 < 0
    /\ (fn.v - 2 * fn.r + 1) % 2 = 1
    /\ fn.start = Floor(fn.v - 2 * fn.r + 1) + 1

(* C6: when the window start..end-1 passes a frame edge, the crop holds
   exactly the frame pixels of the window that lie inside the frame. *)
C6_CropIsIntersection ==
    (fn.op = "crop" /\ (fn.start < 0 \/ fn.end > fn.n)) =>
        fn.lo..(fn.hi - 1) = {k \in fn.start..(fn.end - 1) : 0 <= k /\ k < fn.n}

(* C7: an empty crop is treated as "no candidate": no error, cells unchanged,
   and the run goes on. *)
C7_EmptyCropIsNoCandidate ==
    (last.step = "part" /\ IsEmpty(last.sub)) =>
        /\ error = NoError
        /\ pc # "raised"
        /\ csv = last.before

Thresholded == fn.op = "thresh" /\ IsUniform(fn.img) /\ fn.threshold >= 0

(* C8 as stated: on an image whose pixels all have the same intensity, with a
   non-negative threshold, the thresholding step marks no pixel as foreground. *)
C8_UniformHasNoForeground ==
    Thresholded => \A k \in 1..Len(fn.mask) : fn.mask[k] = 0

(* C8 amended: on an image whose pixels all have the same intensity, with a
   non-negative threshold, the thresholding step marks every pixel as
   foreground (255), so the mask given to contour extraction is not empty. *)
C8_UniformIsAllForeground ==
    Thresholded => \A k \in 1..Len(fn.mask) : fn.mask[k] = MaxVal

C8_Witness ==
    /\ Thresholded
    /\ Len(fn.img) >= 2
    /\ fn.threshold = 0
    /\ \A k \in 1..Len(fn.mask) : fn.mask[k] = MaxVal

(* The markers of the trial: those of the 2D points file of its folder. *)
TrialMarkers ==
    IF CsvListError(xma) = "none"
    THEN {GetBodypartsFromXma(xma[1])[k] : k \in 1..Len(GetBodypartsFromXma(xma[1]))}
    ELSE {}

Decodes(cam) ==
    LET IsDecode(e) == e.ev = "decode" /\ e.cam = cam
    IN SelectSeq(log, IsDecode)

(* The frame count reported when the video of cam was opened, if it was. *)
Reported(cam) ==
    {log[i].count : i \in {k \in 1..Len(log) : log[k].ev = "open" /\ log[k].cam = cam}}

(* C9: within a trial cam1 is processed completely before cam2; for each
   camera the frames are decoded in the order 0, 1, ..., frame_count-1, the
   k-th read delivering frame k, each exactly once; every marker of the
   trial is processed in frame i after frame i is decoded and before frame
   i+1 is. *)
C9_ForwardOnlyDecoding ==
    /\ \A i, j \in 1..Len(log) :
          i < j => ~(log[i].cam = Cams[2] /\ log[j].cam = Cams[1])
    /\ \A c \in {Cams[1], Cams[2]} :
          LET decoded == Decodes(c)
          IN \A k \in 1..Len(decoded) :
                /\ decoded[k].frame_index = k - 1
                /\ decoded[k].pos = k - 1
                /\ k <= decoded[k].count
    /\ \A i \in 1..Len(log) :
          log[i].ev = "process" =>
              \E j \in 1..(i - 1) :
                  /\ log[j].ev = "decode"
                  /\ log[j].cam = log[i].cam
                  /\ log[j].frame_index = log[i].frame_index
                  /\ \A k \in (j + 1)..i : log[k].ev = "process"
    /\ \A i \in 1..Len(log) :
          (log[i].ev = "decode" /\ log[i].frame_index > 0) =>
              \A part \in TrialMarkers :
                  \E j \in 1..(i - 1) :
                      /\ log[j].ev = "process"
                      /\ log[j].cam = log[i].cam
                      /\ log[j].frame_index = log[i].frame_index - 1
                      /\ log[j].part = part
    /\ \A i \in 1..Len(log) :
          (log[i].ev = "open" /\ log[i].cam = Cams[2]) =>
              Reported(Cams[1]) = {Len(Decodes(Cams[1]))}
    /\ pc = "save" => Reported(Cams[2]) = {Len(Decodes(Cams[2]))}

C9_Witness ==
    /\ pc = "save"
    /\ Len(Decodes(Cams[1])) >= 2
    /\ Len(Decodes(Cams[2])) >= 2
    /\ error = NoError

(* C10: when the video of cam1 or cam2 cannot be opened, FileNotFoundError is
   raised with the expected video path, no frame of that camera is decoded or
   processed, and the trial's AutoCorrected2DPoints file is not written. *)
C10_MissingVideoAborts ==
    /\ (last.step = "open" /\ ~video.opened) =>
          /\ error = [type |-> "FileNotFoundError",
                      path |-> VideoPath(trials[trial_i], Cams[cam_i])]
          /\ pc = "raised"
          /\ \A i \in 1..Len(log) : log[i].cam # Cams[cam_i]
          /\ outputs[trials[trial_i]] = 0
    /\ (error.type = "FileNotFoundError" /\ Len(error.path) = 5) =>
          /\ pc = "raised"
          /\ outputs[trials[trial_i]] = 0

C10_Witness ==
    /\ last.step = "open"
    /\ ~video.opened
    /\ cam_i = 2
    /\ error.type = "FileNotFoundError"
    /\ error.path = VideoPath(trials[trial_i], Cams[2])
    /\ \E i \in 1..Len(log) : log[i].ev = "process" /\ log[i].cam = Cams[1]
    /\ outputs[trials[trial_i]] = 0


(* The opened video file reports more frames than its decoder delivers. *)
Truncated == video.opened /\ Len(video.frames) < video.count

(* C11: when the decoder fails to deliver a frame at an index below the
   reported frame count, IOError is raised at that frame, no frame of the
   trial at or after that index is decoded or processed, and the trial's
   AutoCorrected2DPoints file is never written. *)
C11_DecodeFailureAborts ==
    (Truncated /\ frame_index >= Len(video.frames)) =>
        /\ frame_index = Len(video.frames)
        /\ pc \in {"read", "raised"}
        /\ pc = "raised" => error = [type |-> "IOError", path |-> <<>>]
        /\ \A i \in 1..Len(log) :
              (log[i].cam = Cams[cam_i] /\ log[i].ev # "open") =>
                  log[i].frame_index < Len(video.frames)
        /\ outputs[trials[trial_i]] = 0

C11_Witness ==
    /\ Truncated
    /\ pc = "raised"
    /\ error.type = "IOError"
    /\ frame_index = 1
    /\ cam_i = 2
    /\ \E i \in 1..Len(log) : log[i].ev = "process" /\ log[i].cam = Cams[2]
    /\ outputs[trials[trial_i]] = 0


(* The (camera, frame, marker) triples processed so far in the trial. *)
Processed ==
    {<<log[i].cam, log[i].frame_index, log[i].part>> :
        i \in {k \in 1..Len(log) : log[k].ev = "process"}}

(* Every frame of the video of cam was decoded and had every marker processed. *)
Complete(cam) ==
    LET decoded == Len(Decodes(cam))
        processed == Processed
    IN /\ Reported(cam) = {decoded}
       /\ \A f \in 0..(decoded - 1) :
             \A part \in TrialMarkers : <<cam, f, part>> \in processed

(* C12: the AutoCorrected2DPoints file of a trial is written exactly once, and
   only after every frame of cam1 and every frame of cam2 has been processed
   for every marker; the table written is the table after all these steps. *)
C12_WrittenOnceWhenComplete ==
    /\ \A k \in 1..Len(trials) :
          /\ outputs[trials[k]] <= 1
          /\ outputs[trials[k]] = 1 <=> (k < trial_i \/ (k = trial_i /\ pc = "done"))
    /\ last.step = "save" =>
          /\ Complete(Cams[1])
          /\ Complete(Cams[2])
          /\ last.table = csv
          /\ outputs[last.trial] = 1

C12_Witness ==
    /\ last.step = "save"
    /\ last.trial = 2
    /\ outputs = [t \in 1..NumTrials |-> 1]
    /\ Len(Decodes(Cams[1])) = 2
    /\ Len(Decodes(Cams[2])) = 1
    /\ Cardinality(Processed) = 3 * Cardinality(Parts)
    /\ last.table # points_in


(* C13: the engine never adds or removes a row or a column: the table being
   corrected keeps the row labels and the column names of the
   Predicted2DPoints table it was read from, and so does every table written,
   whether the videos have fewer frames than the table has rows or not. *)
C13_ShapePreserved ==
    /\ DOMAIN csv.cell = DOMAIN points_in.cell
    /\ csv.nrows = points_in.nrows
    /\ last.step = "save" =>
          /\ ColumnNames(last.table) = ColumnNames(points_in)
          /\ RowLabels(last.table) = RowLabels(points_in)
          /\ last.table.nrows = points_in.nrows

C13_Witness ==
    /\ last.step = "save"
    /\ points_in.nrows = 2
    /\ Len(Decodes(Cams[1])) = 1
    /\ Len(Decodes(Cams[2])) = 2
    /\ last.table # points_in
    /\ RowLabels(last.table) = {0, 1}


(* The crop and the candidates of the last step, computed again from the two
   cells it read, the frame and the configuration only. *)
CropOfRead ==
    Subimage(CropStart(last.before.cell[CellX], project.search_area),
             CropEnd(last.before.cell[CellX], project.search_area),
             CropStart(last.before.cell[CellY], project.search_area),
             CropEnd(last.before.cell[CellY], project.search_area),
             frame.w, frame.h)

ContoursOfRead ==
    FindContours(frame.blobs, CropOfRead,
                 CropStart(last.before.cell[CellX], project.search_area),
                 CropStart(last.before.cell[CellY], project.search_area))

(* C14: the step for (camera c, frame f, marker m) reads the cells (f, m, c, X)
   and (f, m, c, Y) and what it does is determined by them, the frame and the
   configuration; it writes only those two cells, every other cell of the
   table is unchanged by the step; within one pass over a trial no
   (camera, frame, marker) triple is processed twice. *)
C14_StepTouchesOnlyItsCells ==
    /\ Detected =>
          /\ log[Len(log)] = [ev |-> "process", cam |-> last.cam,
                              frame_index |-> last.row, pos |-> video.pos,
                              part |-> last.part, count |-> video.count,
                              frames |-> <<>>]
          /\ last.row = log[Len(log)].frame_index
          /\ last.x_float = last.before.cell[CellX]
          /\ last.y_float = last.before.cell[CellY]
          /\ last.sub = CropOfRead
          /\ last.contours = ContoursOfRead
          /\ DOMAIN csv.cell = DOMAIN last.before.cell
          /\ \A c \in DOMAIN csv.cell :
                c \notin {CellX, CellY} => csv.cell[c] = last.before.cell[c]
          /\ csv.cell[CellX] \in
                {last.x_float} \cup {ContoursOfRead[i][1] : i \in 1..Len(ContoursOfRead)}
          /\ csv.cell[CellY] \in
                {last.y_float} \cup {ContoursOfRead[i][2] : i \in 1..Len(ContoursOfRead)}
    /\ \A i, j \in 1..Len(log) :
          (i < j /\ log[i].ev = "process" /\ log[j].ev = "process") =>
              <<log[i].cam, log[i].frame_index, log[i].part>> #
              <<log[j].cam, log[j].frame_index, log[j].part>>

C14_Witness ==
    /\ Detected
    /\ last.cam = Cams[2]
    /\ last.row = 1
    /\ csv.cell[CellX] # last.before.cell[CellX]
    /\ csv.cell[CellY] # last.before.cell[CellY]
    /\ csv.cell[<<last.row, last.part, Cams[1], "X">>] # csv.cell[CellX]
    /\ csv.cell[<<0, last.part, Cams[2], "X">>] # csv.cell[CellX]


(* Every column of the header is named {marker}_{camera}_{axis}. *)
WellFormed == fn.op = "names" /\ \A i \in 1..Len(fn.columns) : Len(fn.columns[i]) >= 3

(* The name of column i without its last two underscore-separated fields. *)
MarkerAt(i) == [k \in 1..(Len(fn.columns[i]) - 2) |-> fn.columns[i][k]]

FirstColumn(marker) ==
    CHOOSE i \in 1..Len(fn.columns) :
        /\ MarkerAt(i) = marker
        /\ \A j \in 1..(i - 1) : MarkerAt(j) # marker

(* parts lists the markers of the columns, each once, in order of first
   appearance among the columns. *)
IsMarkerList(parts) ==
    /\ {parts[k] : k \in 1..Len(parts)} = {MarkerAt(i) : i \in 1..Len(fn.columns)}
    /\ \A k, l \in 1..Len(parts) : k # l => parts[k] # parts[l]
    /\ \A k, l \in 1..Len(parts) : k < l => FirstColumn(parts[k]) < FirstColumn(parts[l])

(* C17 as stated: for columns named {marker}_{camera}_{axis},
   get_bodyparts_from_xma (samtools.py and XMADataProcessor alike) returns the
   names without their last two fields, without duplicates, in order of first
   appearance. *)
C17_ReturnsMarkers ==
    WellFormed =>
        /\ IsMarkerList(fn.parts)
        /\ fn.by_mode.error = "none" => IsMarkerList(fn.by_mode.parts)

(* C17 amended: for columns named {marker}_{camera}_{axis}, samtools.py's
   get_bodyparts_from_xma, and XMADataProcessor's in the modes "2D" and
   "per_cam", return the names without their last two fields, without
   duplicates, in order of first appearance; in the mode "rgb" the names
   returned keep the camera field. *)
C17_ReturnsMarkersOutsideRgb ==
    WellFormed =>
        /\ IsMarkerList(fn.parts)
        /\ fn.mode \in {"2D", "per_cam"} =>
              fn.by_mode.error = "none" /\ IsMarkerList(fn.by_mode.parts)
        /\ fn.mode = "rgb" =>
              \A i \in 1..Len(fn.columns) :
                  \E k \in 1..Len(fn.by_mode.parts) :
                      fn.by_mode.parts[k] = MarkerAt(i) \o <<fn.columns[i][Len(fn.columns[i]) - 1]>>

C17_Witness ==
    /\ WellFormed
    /\ fn.mode = "2D"
    /\ Len(fn.columns) = 3
    /\ MarkerAt(1) = <<"a", "a">>
    /\ MarkerAt(2) = <<"a">>
    /\ MarkerAt(3) = <<"a", "a">>
    /\ fn.parts = << <<"a", "a">>, <<"a">> >>
    /\ fn.by_mode.parts = fn.parts


(* The table a pass is to produce, as a function of the coordinate table, the
   frames of the two videos and the configuration only: for cam1 then cam2,
   for every frame in order, for every marker of the table's columns. *)
RECURSIVE CorrectParts(_, _, _, _, _, _)
CorrectParts(t, parts, cam, f, fr, r) ==
    IF parts = <<>> THEN t
    ELSE LET p == <<t.cell[<<f, Head(parts), cam, "X">>],
                    t.cell[<<f, Head(parts), cam, "Y">>]>>
             sub == Subimage(CropStart(p[1], r), CropEnd(p[1], r),
                             CropStart(p[2], r), CropEnd(p[2], r), fr.w, fr.h)
             centers == FindContours(fr.blobs, sub, CropStart(p[1], r),
                                     CropStart(p[2], r))
         IN CorrectParts(SaveCenter(t, f, Head(parts), cam, centers,
                                    ClosestContour(p, centers)),
                         Tail(parts), cam, f, fr, r)

RECURSIVE CorrectFrames(_, _, _, _, _, _)
CorrectFrames(t, frames, k, cam, parts, r) ==
    IF k > Len(frames) THEN t
    ELSE CorrectFrames(CorrectParts(t, parts, cam, k - 1, frames[k], r),
                       frames, k + 1, cam, parts, r)

(* The markers of a table, from its column names, in column order. *)
MarkersOf(t) == SelectSeq(<<M1, M2, M3>>, LAMBDA m : \E c \in ColumnNames(t) : c[1] = m)

(* The frames of the video opened for cam in this pass. *)
FramesOf(cam) ==
    LET i == CHOOSE k \in 1..Len(log) : log[k].ev = "open" /\ log[k].cam = cam
    IN log[i].frames

(* C15: the table a pass writes is a function of the coordinate table read,
   the frame sequences of the two videos and the configuration only: it is
   the same whatever the engine processed before and whatever else the run
   holds. *)
C15_OutputIsFunctionOfInputs ==
    last.step = "save" =>
        last.table =
            CorrectFrames(
                CorrectFrames(points_in, FramesOf(Cams[1]), 1, Cams[1],
                              MarkersOf(points_in), project.search_area),
                FramesOf(Cams[2]), 1, Cams[2], MarkersOf(points_in),
                project.search_area)


(* load_project has returned a project. *)
Loaded == pc # "load" /\ ~(last.step = "load" /\ pc = "raised")

(* C16: after load_project, search_area is an integer >= 10: a configured
   value below 10 has become 10, a configured value v >= 10 has become the
   integer nearest to v, a half rounding up; the crop bounds of every step
   afterwards are computed with this value. *)
C16_SearchAreaClamped ==
    /\ Loaded => project.search_area >= MinSearchArea
    /\ (Loaded /\ last.step = "load") =>
          LET v == last.load.inp.search_area
          IN /\ v < 2 * MinSearchArea => project.search_area = MinSearchArea
             /\ v >= 2 * MinSearchArea =>
                   /\ 2 * project.search_area - 1 <= v
                   /\ v < 2 * project.search_area + 1
    /\ last.step = "part" =>
          /\ last.x_start = TowardZero(last.x_float - 2 * project.search_area + 1)
          /\ last.x_end = TowardZero(last.x_float + 2 * project.search_area + 1)
          /\ last.y_start = TowardZero(last.y_float - 2 * project.search_area + 1)
          /\ last.y_end = TowardZero(last.y_float + 2 * project.search_area + 1)

C16_Witness ==
    /\ Loaded
    /\ last.step = "load"
    /\ last.load.inp.search_area = 1999
    /\ project.search_area = 1000


(* C18: the markers the engine iterates over are those of the column names of
   the coordinate table being corrected: every marker processed has its
   {marker}_{camera}_X and {marker}_{camera}_Y columns in that table, and
   every marker of the table is processed. *)
C18_MarkersAreTheTablesOwn ==
    pc = "part" =>
        /\ \A k \in 1..Len(parts_unique) :
              \A cam \in {Cams[1], Cams[2]} :
                  \A axis \in Axes :
                      <<parts_unique[k], cam, axis>> \in ColumnNames(csv)
        /\ {parts_unique[k] : k \in 1..Len(parts_unique)} =
              {c[1] : c \in ColumnNames(csv)}

(* Some marker and camera of some row has exactly one of X and Y. *)
PartiallyMissing(t) ==
    \E c \in DOMAIN t.cell :
        /\ c[4] = "X"
        /\ IsNaN(t.cell[c]) # IsNaN(t.cell[<<c[1], c[2], c[3], "Y">>])

(* C19: on a coordinate table with a partially-missing coordinate the
   per-frame correction never starts and no cell is written; a table whose
   coordinates are each complete or entirely absent is accepted: no missing
   value makes the run fail. *)
C19_PartialTableRejected ==
    /\ PartiallyMissing(points_in) =>
          /\ pc # "part"
          /\ Processed = {}
          /\ csv = points_in
    /\ ~PartiallyMissing(points_in) => error.type # "ValueError"

(* The marker list of the XMAlab CSV of the trainingdata folder, as the
   tracking mode names the markers. *)
ExpectedBodyparts(mode) ==
    IF mode = "rgb"
    THEN << <<"m1", "cam1">>, <<"m1", "cam2">>, <<"m", "2", "cam1">>, <<"m", "2", "cam2">> >>
    ELSE << <<"m1">>, <<"m", "2">> >>

(* load_project got as far as the check of the marker names. *)
ReachedBodyparts ==
    /\ last.step = "load"
    /\ last.load.inp.training.named
    /\ Len(last.load.inp.training.csvs) = 1
    /\ \A i \in 1..Len(last.load.inp.training.rows) :
          \/ \A k \in 1..Len(XmaColumns) : last.load.inp.training.rows[i][k]
          \/ \A k \in 1..Len(XmaColumns) : ~last.load.inp.training.rows[i][k]

(* C20: default DLC bodyparts are replaced by the marker list of the XMAlab
   CSV; other bodyparts that differ from that list make load_project raise
   SyntaxError, the DLC config stays as it was and autocorrect_trial
   processes no trial; after every successful load_project the DLC config's
   bodyparts are the marker list of the XMAlab CSV. *)
C20_BodypartsChecked ==
    /\ ReachedBodyparts =>
          LET inp == last.load.inp
              res == last.load.res
              expected == ExpectedBodyparts(inp.tracking_mode)
          IN /\ inp.dlc_bodyparts = DefaultBodyparts =>
                   res.error # "SyntaxError" /\ res.dlc_bodyparts = expected
             /\ (inp.dlc_bodyparts # DefaultBodyparts /\ inp.dlc_bodyparts # expected) =>
                   /\ res.error = "SyntaxError"
                   /\ res.dlc_bodyparts = inp.dlc_bodyparts
                   /\ error.type = "SyntaxError"
             /\ inp.dlc_bodyparts = expected => res.error # "SyntaxError"
    /\ (last.step = "load" /\ last.load.res.error = "none") =>
          /\ pc = "listdir"
          /\ last.load.res.saved
          /\ last.load.res.dlc_bodyparts =
                ExpectedBodyparts(last.load.inp.tracking_mode)
    /\ error.type = "SyntaxError" =>
          /\ pc = "raised"
          /\ last.step = "load"
          /\ trial_i = 0
          /\ log = <<>>
          /\ csv = EmptyTable
          /\ \A t \in 1..NumTrials : outputs[t] = 0

C20_Witness ==
    /\ ReachedBodyparts
    /\ last.load.inp.dlc_bodyparts = << <<"m", "2">>, <<"m1">> >>
    /\ last.load.inp.tracking_mode = "none"
    /\ error.type = "SyntaxError"
    /\ pc = "raised"
    /\ trial_i = 0


(* The rows of the training 2D points CSV that are not entirely empty. *)
TrackedRows(inp) ==
    Cardinality({i \in 1..Len(inp.training.rows) :
                    \E k \in 1..Len(XmaColumns) : inp.training.rows[i][k]})

LoadReturned == fn.op = "load" /\ fn.res.error = "none"

(* C21: with a configured nframes <= 0, the project load_project returns has
   as nframes the number of rows of the training CSV that are not entirely
   empty, and project_config.yaml holds the same value; a configured
   nframes > 0 is left unchanged, in the project and in the file. *)
C21_NframesDefault ==
    /\ (LoadReturned /\ fn.inp.nframes <= 0) =>
          /\ fn.res.nframes = TrackedRows(fn.inp)
          /\ fn.res.saved
          /\ fn.res.yaml_nframes = TrackedRows(fn.inp)
    /\ (LoadReturned /\ fn.inp.nframes > 0) =>
          /\ fn.res.nframes = fn.inp.nframes
          /\ fn.res.yaml_nframes = fn.inp.nframes
    /\ (fn.op = "load" /\ fn.res.error # "none") =>
          fn.res.yaml_nframes = fn.inp.nframes

C21_Witness ==
    /\ LoadReturned
    /\ fn.inp.nframes = 0
    /\ fn.inp.training.rows = <<RowEmpty, RowFull>>
    /\ fn.res.nframes = 1
    /\ fn.res.yaml_nframes = 1


(* The training CSV is there and each of its rows is full or entirely empty. *)
ValidCsv(inp) ==
    /\ inp.training.named
    /\ \A i \in 1..Len(inp.training.rows) :
          \/ \A k \in 1..Len(XmaColumns) : inp.training.rows[i][k]
          \/ \A k \in 1..Len(XmaColumns) : ~inp.training.rows[i][k]

MismatchWarned == [category |-> "UserWarning", about |-> "nframes"] \in fn.res.warnings

(* C22: load_project warns (UserWarning) that nframes does not match the 2D
   points file exactly when the configured nframes is > 0 and differs from
   the number of tracked rows of the training CSV; the warning does not stop
   the load: with marker names that pass, the project is returned with its
   nframes as configured and saved. *)
C22_NframesMismatchWarns ==
    /\ (fn.op = "load" /\ ValidCsv(fn.inp)) =>
          (MismatchWarned <=>
              (fn.inp.nframes > 0 /\ fn.inp.nframes # TrackedRows(fn.inp)))
    /\ (fn.op = "load" /\ ~ValidCsv(fn.inp)) => ~MismatchWarned
    /\ fn.op = "load_in" => fn.res.warnings = {}
    /\ (/\ fn.op = "load"
        /\ MismatchWarned
        /\ Len(fn.inp.training.csvs) = 1
        /\ fn.inp.dlc_bodyparts \in {DefaultBodyparts, << <<"m1">>, <<"m", "2">> >>}) =>
          /\ fn.res.error = "none"
          /\ fn.res.saved
          /\ fn.res.nframes = fn.inp.nframes

C22_Witness ==
    /\ LoadReturned
    /\ MismatchWarned
    /\ fn.inp.nframes = 2
    /\ fn.inp.training.rows = <<RowFull>>
    /\ fn.res.nframes = 2


ThresholdWarned == [category |-> "UserWarning", about |-> "threshold"] \in fn.res.warnings

UserWarned == \E w \in fn.res.warnings : w.category = "UserWarning"

(* Fewer rows of the current training CSV are tracked than tracking_threshold
   times the frames of the cam1 video. *)
TrackedBelowThreshold(inp) ==
    TrackedRows(inp) * 100 < inp.cam1_frames * inp.tracking_threshold

(* C23: load_project issues a UserWarning whenever the number of tracked rows
   of the current training CSV is less than tracking_threshold times the
   number of frames of the cam1 video; when the configured nframes is <= 0 or
   equal to that number of rows, the warning about the threshold is issued
   exactly then, and no UserWarning is issued otherwise. *)
C23_BelowThresholdWarns ==
    /\ (fn.op = "load" /\ ValidCsv(fn.inp) /\ TrackedBelowThreshold(fn.inp)) =>
          UserWarned
    /\ (/\ fn.op = "load"
        /\ ValidCsv(fn.inp)
        /\ (fn.inp.nframes <= 0 \/ fn.inp.nframes = TrackedRows(fn.inp))) =>
          /\ ThresholdWarned <=> TrackedBelowThreshold(fn.inp)
          /\ UserWarned <=> TrackedBelowThreshold(fn.inp)

C23_Witness ==
    /\ LoadReturned
    /\ fn.inp.nframes = 0
    /\ fn.inp.training.rows = <<RowFull>>
    /\ fn.inp.cam1_frames = 4
    /\ fn.inp.tracking_threshold = 50
    /\ ThresholdWarned
    /\ ~MismatchWarned


(* C24: with an empty trials directory autocorrect_trial raises
   FileNotFoundError naming the trials folder, before the coordinate file of
   any trial is read, any trial video is opened or any output file is
   written; with a trial in the directory it does not. *)
C24_EmptyTrialsAborts ==
    /\ (last.step = "listdir" /\ trials = <<>>) =>
          /\ pc = "raised"
          /\ error = [type |-> "FileNotFoundError", path |-> <<"trials">>]
          /\ trial_i = 0
          /\ csv = EmptyTable
          /\ points_in = EmptyTable
          /\ xma = <<>>
          /\ video = NoVideo
          /\ frame = NoFrame
          /\ log = <<>>
          /\ \A t \in 1..NumTrials : outputs[t] = 0
    /\ (last.step = "listdir" /\ pc = "raised") => trials = <<>>
    /\ pc \in {"points", "open", "read", "part", "save", "done"} => Len(trials) >= 1

C24_Witness ==
    /\ last.step = "listdir"
    /\ trials = <<>>
    /\ pc = "raised"
    /\ error.type = "FileNotFoundError"
    /\ project.search_area >= MinSearchArea


(* C25: wherever a decoded frame is paired with a row of the coordinate
   table, the k-th frame of the video (from 0) is paired with row k, as in
   autocorrect_video and autocorrect_frame; here for the frame and the row
   jupyter_test_autocorrect takes. *)
C25_OneFrameIndexConvention ==
    (fn.op = "jupyter" /\ fn.res.row >= 0) => fn.res.row = fn.res.pos


(* C26: after create_new_project(working_dir) the folders trainingdata,
   trials and XMA_files exist under working_dir, and project_config.yaml
   exists there with a value that is not null for task, experimenter,
   working_dir, path_config_file, dataset_name, nframes and maxiters,
   whatever existed beforehand. *)
C26_ProjectCreated ==
    fn.op = "create" =>
        /\ fn.res.exists
        /\ ProjectDirs \subseteq fn.res.dirs
        /\ fn.res.config.exists
        /\ \A k \in ConfigKeys : fn.res.config.values[k] # Null


(* The X and Y cells of a (row, marker, camera) of a table, as a pair. *)
PairOf(t, row, part, cam) ==
    <<t.cell[<<row, part, cam, "X">>], t.cell[<<row, part, cam, "Y">>]>>

(* The centers of the candidates the frame of that row holds around the
   predicted point of the marker, in the video opened for cam in this pass. *)
CandidatesOf(row, part, cam) ==
    LET opens == {k \in 1..Len(log) : log[k].ev = "open" /\ log[k].cam = cam}
        p == PairOf(points_in, row, part, cam)
        r == project.search_area
    IN IF opens = {} \/ IsNaN(p[1]) \/ IsNaN(p[2]) THEN {}
       ELSE LET frames == FramesOf(cam)
            IN IF row >= Len(frames) THEN {}
               ELSE LET fr == frames[row + 1]
                        sub == Subimage(CropStart(p[1], r), CropEnd(p[1], r),
                                        CropStart(p[2], r), CropEnd(p[2], r),
                                        fr.w, fr.h)
                        centers == FindContours(fr.blobs, sub, CropStart(p[1], r),
                                                CropStart(p[2], r))
                    IN {centers[i] : i \in 1..Len(centers)}

(* C27: in every state of the table, also the one an exception leaves
   behind, the X and Y cells of a (frame, marker, camera) are together the
   predicted pair or together the center of one candidate of that frame; the
   marker step leaves the pair as it was or writes the center of one of the
   contours it found. *)
C27_PairWrittenTogether ==
    /\ DOMAIN csv.cell = DOMAIN points_in.cell
    /\ \A c \in DOMAIN csv.cell :
          c[4] = "X" =>
              \/ PairOf(csv, c[1], c[2], c[3]) = PairOf(points_in, c[1], c[2], c[3])
              \/ PairOf(csv, c[1], c[2], c[3]) \in CandidatesOf(c[1], c[2], c[3])
    /\ Detected =>
          \/ PairOf(csv, last.row, last.part, last.cam) =
                PairOf(last.before, last.row, last.part, last.cam)
          \/ \E i \in 1..Len(last.contours) :
                PairOf(csv, last.row, last.part, last.cam) = last.contours[i]

C27_Witness ==
    /\ pc = "raised"
    /\ error.type \in {"IOError", "ValueError", "FileNotFoundError"}
    /\ \E c \in DOMAIN csv.cell :
          /\ c[4] = "Y"
          /\ csv.cell[c] # points_in.cell[c]
          /\ PairOf(csv, c[1], c[2], c[3]) \in CandidatesOf(c[1], c[2], c[3])


(* C28: when an exception ends the run in trial k, the output files of the
   trials before k are written, once each, none is written for trial k nor
   for a trial after k, and the run does nothing more. *)
C28_FatalErrorStopsTheRun ==
    pc = "raised" =>
        /\ \A k \in 1..Len(trials) :
              outputs[trials[k]] = IF k < trial_i THEN 1 ELSE 0
        /\ \A t \in 1..NumTrials :
              (\A k \in 1..Len(trials) : trials[k] # t) => outputs[t] = 0
        /\ error # NoError
        /\ ~ENABLED Next

C28_Witness ==
    /\ pc = "raised"
    /\ Len(trials) >= 2
    /\ trial_i = 2
    /\ error.type \in {"FileNotFoundError", "IOError"}
    /\ outputs[trials[1]] = 1
    /\ outputs[trials[2]] = 0


(* The frame numbers asked for that the video has. *)
Wanted ==
    {fn.indices_to_match[k] : k \in 1..Len(fn.indices_to_match)} \cap
        (1..fn.video.frames)

(* C29: for a list of frame numbers that is not empty, _vid_to_pngs reads the
   video forward, the k-th read (from 1) being frame number k; it returns, in
   increasing order, exactly one PNG for every frame number asked for that
   lies between 1 and the number of frames, each PNG holding the frame of its
   number; it reads at most one frame past the largest number asked for, and
   returns after the failed read when the video ends before that. *)
C29_VidToPngs ==
    /\ fn.op = "pngs_loop" =>
          /\ fn.frame_index = fn.reads + 1
          /\ fn.reads <= fn.video.frames
          /\ fn.reads <= fn.last_frame_to_analyze
    /\ fn.op \in {"pngs_loop", "pngs_returned"} =>
          /\ \A i \in 1..Len(fn.png_list) :
                /\ fn.png_list[i].frame = fn.png_list[i].name
                /\ fn.png_list[i].name \in Wanted
                /\ fn.png_list[i].name < fn.frame_index
          /\ \A i, j \in 1..Len(fn.png_list) :
                i < j => fn.png_list[i].name < fn.png_list[j].name
          /\ fn.reads <= fn.last_frame_to_analyze + 1
          /\ fn.reads <= fn.video.frames + 1
    /\ fn.op = "pngs_returned" =>
          /\ {fn.png_list[i].name : i \in 1..Len(fn.png_list)} = Wanted
          /\ Len(fn.png_list) = Cardinality(Wanted)
          /\ fn.video.opened =>
                fn.reads = IF fn.video.frames < fn.last_frame_to_analyze + 1
                           THEN fn.video.frames + 1
                           ELSE fn.last_frame_to_analyze + 1
          /\ ~fn.video.opened => fn.reads = 0
    /\ fn.op = "pngs_raised" =>
          /\ fn.indices_to_match = <<>>
          /\ fn.reads = 0
          /\ fn.png_list = <<>>

C29_Witness ==
    /\ fn.op = "pngs_returned"
    /\ fn.indices_to_match = <<4, 2>>
    /\ fn.video.frames = 3
    /\ fn.png_list = <<[name |-> 2, frame |-> 2]>>
    /\ fn.reads = 4

=============================================================================
